---- MODULE Spec2Model ----
(***************************************************************************)
(* A model of the telegram tracker: the connectors (connectors.py), the    *)
(* reconciliation of listener jobs with the channel directory and the      *)
(* polling jobs (BotService in service.py), over python-telegram-bot's     *)
(* JobQueue.  One asyncio event loop runs everything: a coroutine runs     *)
(* atomically from one await that really suspends to the next, so every    *)
(* action below is the code between two such awaits.                       *)
(*                                                                         *)
(* service.py reads connector.channel_id where connectors.py stores the    *)
(* same constructor argument as cid; the model treats the two names as one *)
(* field, cid.                                                             *)
(***************************************************************************)
EXTENDS Integers, Sequences, FiniteSets, TLC

\* ------------------------------------------------------------- bounds
\* the clock runs over 0..MaxTime
MaxTime == 2
\* connector objects alive at once (unreferenced closed ones are collected)
MaxConn == 6
\* the longest message, the largest TEXT_MAX_LENGTH and the largest
\* NOTIFICATION_LIFETIME (in retry intervals) a dispatch is tried with
MaxLen == 3
MaxChunk == 2
MaxLifetime == 1

Channels == {1, 2}
Users == {"u1", "u2"}
ConnIds == 1..MaxConn

VARIABLES
    now,        \* dt.datetime.now(), a number
    cf,         \* BotConfiguration: ACTUALIZE_INTERVAL, SILENT_ACTUALIZE, POLLING
    kind,       \* the connector kind each channel row names (fixed per behaviour)
    directory,  \* TRACKER.channel rows: active, connector, config, polling, order
    subs,       \* TRACKER.subscription: channel -> set of subscribed user ids
    world,      \* what each channel watches: the file, the folder, the table
    conns,      \* the Connector objects: id -> fields
    jobs,       \* the JobQueue's listener jobs: [cid, conn, trig]
    actualizeJobs, \* how many jobs named 'actualize' the JobQueue holds
    tasks,      \* coroutines suspended in `await asyncio.wait(sent)`
    deliveries, \* the __send_by_parts tasks not yet settled
    cmd,        \* the command handler in progress (updates are handled one at a time)
    user_data,  \* application.user_data: user -> [SILENT_MODE, SLEEP_TIME]
    silentJobs, \* the JobQueue's __silent_off jobs: [user, at]
    onstart,    \* whether the run_once(_onstart) job of the start-up is still pending
    observed,   \* history: the cursor each channel was last seen with, the rows reported
    last        \* what the last step did (the exception it raised, what it spawned)

vars == <<now, cf, kind, directory, subs, world, conns, jobs, actualizeJobs,
          tasks, deliveries, cmd, user_data, silentJobs, onstart,
          observed, last>>

\* ------------------------------------------------------------- values
\* A cursor value with the Python type it has: isinstance(x, dt.datetime)
\* is ty = "dt"; None is ty = "none"; a value read from an ordering column
\* that is no datetime (a date, a string, a number) is ty = "other".
Dt(n) == [ty |-> "dt", v |-> n]
Other(n) == [ty |-> "other", v |-> n]
NoneVal == [ty |-> "none", v |-> 0]
\* a tuple of file names (its elements as a set), or None
Tuple(S) == [is |-> "tuple", s |-> S]
NoFiles == [is |-> "None", s |-> {}]

Max(S) == CHOOSE x \in S : \A y \in S : y <= x
Min(S) == CHOOSE x \in S : \A y \in S : x <= y

\* the elements of a set of numbers in ascending order
RECURSIVE Ascending(_)
Ascending(S) == IF S = {} THEN <<>> ELSE <<Min(S)>> \o Ascending(S \ {Min(S)})

\* every ordering of a finite set
RECURSIVE Orders(_)
Orders(S) ==
    IF S = {} THEN {<<>>}
    ELSE UNION {{<<x>> \o o : o \in Orders(S \ {x})} : x \in S}

\* ------------------------------------------------------------- connectors
\* Connector.context / FolderConnector.context: what a rebuild hands over
EmptyContext == [modified |-> NoneVal, files |-> NoFiles]

Context(c) ==
    IF c.kind = "FOLDER"
    THEN [modified |-> c.last_modified, files |-> c.files]
    ELSE [modified |-> c.last_modified, files |-> NoFiles]

\* Connector.__init__: modified if isinstance(modified, dt.datetime) else now()
InitModified(modified, t) == IF modified.ty = "dt" THEN modified ELSE Dt(t)

\* os.walk(self.path) as FolderConnector.__init__ consumes it:
\* tuple(*chain(g for ... in os.walk(...))) is tuple() of nothing for a
\* missing root, tuple(g) for a root with no subdirectory, and a TypeError
\* (tuple expected at most 1 argument) for a tree of two or more directories.
InitWalkRaises(w) == w.exists /\ w.subdirs
InitWalk(w) == IF w.exists THEN w.files ELSE {}

\* whether constructing the connector of a row raises
\*   config "nonmap": **config is no mapping, or repeats a keyword argument
\*   config "nopath": the JSON holds no path / no connection parameters
ConstructRaises(row, k, ctx, w) ==
    \/ row.config = "nonmap"
    \/ /\ k = "FOLDER"
       /\ ctx.files.is # "tuple"
       /\ row.config = "nopath" \/ InitWalkRaises(w)

\* SQLConnector.connect: None on success, the exception otherwise
ConnectOK(c, w) == c.params /\ w.up

\* the connector object a row's constructor builds.  fresh is history, not
\* an attribute: the connector watches a tree, was built with no snapshot
\* handed over, and has not run a check yet.
Construct(s, row, k, ctx, w, t) ==
    [cid |-> s,
     kind |-> k,
     params |-> (row.config = "ok"),
     order |-> row.order,
     trigger |-> row.trigger,
     last_modified |-> InitModified(ctx.modified, t),
     files |-> IF k = "FOLDER"
               THEN (IF ctx.files.is = "tuple" THEN ctx.files ELSE Tuple(InitWalk(w)))
               ELSE NoFiles,
     fresh |-> (k = "FOLDER" /\ ctx.files.is # "tuple"),
     closed |-> FALSE,
     db |-> IF k = "SQL" /\ row.config = "ok" /\ w.up THEN "open" ELSE "none",
     state |-> IF k = "SQL" /\ ~(row.config = "ok" /\ w.up) THEN "err" ELSE "ok"]

\* Connector.close / SQLConnector.close: the cursor and the connection are
\* closed, the attributes keep referring to them
Close(c) ==
    [c EXCEPT !.closed = TRUE,
              !.db = IF c.db \in {"open", "broken"} THEN "closed" ELSE c.db]

\* a check that takes an unchanged modification time for a change
FileCheckNotOlder(c, w) ==
    IF ~c.params THEN [conn |-> c, out |-> <<>>, raised |-> TRUE]
    ELSE IF ~w.exists THEN [conn |-> c, out |-> <<>>, raised |-> FALSE]
    ELSE IF c.last_modified.v > w.mtime THEN [conn |-> c, out |-> <<>>, raised |-> FALSE]
    ELSE [conn |-> [c EXCEPT !.last_modified = Dt(w.mtime)],
          out |-> <<IF w.readable THEN "content" ELSE "readerror">>,
          raised |-> FALSE]

\* a check that keeps the cursor when the file cannot be read
FileCheckKeepsCursor(c, w) ==
    IF ~c.params THEN [conn |-> c, out |-> <<>>, raised |-> TRUE]
    ELSE IF ~w.exists THEN [conn |-> c, out |-> <<>>, raised |-> FALSE]
    ELSE IF c.last_modified.v >= w.mtime THEN [conn |-> c, out |-> <<>>, raised |-> FALSE]
    ELSE [conn |-> IF w.readable THEN [c EXCEPT !.last_modified = Dt(w.mtime)] ELSE c,
          out |-> <<IF w.readable THEN "content" ELSE "readerror">>,
          raised |-> FALSE]

\* FileConnector.check
FileCheck(c, w) ==
    IF ~c.params THEN [conn |-> c, out |-> <<>>, raised |-> TRUE]
    ELSE IF ~w.exists THEN [conn |-> c, out |-> <<>>, raised |-> FALSE]
    ELSE IF c.last_modified.v >= w.mtime THEN [conn |-> c, out |-> <<>>, raised |-> FALSE]
    ELSE [conn |-> [c EXCEPT !.last_modified = Dt(w.mtime)],
          out |-> <<IF w.readable THEN "content" ELSE "readerror">>,
          raised |-> FALSE]

\* FolderConnector.check
FolderLines(c, files) ==
    (IF (c.files.s \ files) # {} /\ c.trigger \in {"DEL", "ANY"}
     THEN <<"Removed files">> ELSE <<>>)
    \o
    (IF (files \ c.files.s) # {} /\ c.trigger \in {"ADD", "ANY"}
     THEN <<"Added files">> ELSE <<>>)

\* a check that stores the snapshot only when it emitted a line
FolderCheckKeepsSnapshot(c, w, t) ==
    IF ~c.params THEN [conn |-> c, out |-> <<>>, raised |-> TRUE]
    ELSE IF ~w.exists
    THEN [conn |-> [c EXCEPT !.files = Tuple({}), !.fresh = FALSE],
          out |-> <<>>, raised |-> FALSE]
    ELSE IF c.files.is # "None"
    THEN [conn |-> [c EXCEPT !.files = IF FolderLines(c, w.files) = <<>> THEN @
                                       ELSE Tuple(w.files),
                             !.last_modified = Dt(t), !.fresh = FALSE],
          out |-> FolderLines(c, w.files), raised |-> FALSE]
    ELSE [conn |-> [c EXCEPT !.files = Tuple(w.files), !.fresh = FALSE],
          out |-> <<>>, raised |-> FALSE]

FolderCheck(c, w, t) ==
    IF ~c.params THEN [conn |-> c, out |-> <<>>, raised |-> TRUE]
    ELSE IF ~w.exists
    THEN [conn |-> [c EXCEPT !.files = Tuple({}), !.fresh = FALSE],
          out |-> <<>>, raised |-> FALSE]
    ELSE IF c.files.is # "None"
    THEN [conn |-> [c EXCEPT !.files = Tuple(w.files), !.last_modified = Dt(t),
                             !.fresh = FALSE],
          out |-> FolderLines(c, w.files), raised |-> FALSE]
    ELSE [conn |-> [c EXCEPT !.files = Tuple(w.files), !.fresh = FALSE],
          out |-> <<>>, raised |-> FALSE]

\* SQLConnector.check
\* cursor.execute succeeds on an open connection to a reachable server
\* whose table and ordering column exist
ExecuteOK(c, w) == c.db = "open" /\ w.up /\ w.tableok

\* a query that also returns the rows at the cursor
FetchedFromCursor(c, w) == {r \in w.rows : r >= c.last_modified.v}

\* WHERE order > last_modified: the ordering values of the rows selected
Fetched(c, w) == {r \in w.rows : r > c.last_modified.v}

\* an element of the tuple a table check returns: a row (rendered without
\* its ordering column; order is the ordering value it was selected by),
\* or the text of an exception
RowOut(v) == [order |-> v]
ErrorOut(e) == [error |-> e]

\* ORDER BY order, fetchall, last_modified = max(row[order])
SQLRows(c, w) ==
    IF Fetched(c, w) = {} THEN [conn |-> c, out |-> <<>>, raised |-> FALSE]
    ELSE [conn |-> [c EXCEPT !.last_modified =
                        [ty |-> c.order, v |-> Max(Fetched(c, w))]],
          out |-> [i \in 1..Cardinality(Fetched(c, w)) |->
                        RowOut(Ascending(Fetched(c, w))[i])],
          raised |-> FALSE]

\* the connection of c once the server is in state w
Seen(c, w) == IF c.db = "open" /\ ~w.up THEN [c EXCEPT !.db = "broken"] ELSE c

\* self.state = self.connect(): succeeded, failed
Connected(c) == [c EXCEPT !.db = "open", !.state = "ok"]
NotConnected(c) == [c EXCEPT !.state = "err"]

\* SQLConnector.check; ws[1..4] are the states of the server at the first
\* execute, at the connect after it failed, at the second execute and at
\* the connect after that one failed
SQLCheckVia(c, ws) ==
    IF c.state # "ok"
    THEN [conn |-> c, out |-> <<ErrorOut("connect")>>, raised |-> FALSE]
    ELSE
    LET c1 == Seen(c, ws[1]) IN
    IF ExecuteOK(c1, ws[1]) THEN SQLRows(c1, ws[1])
    ELSE
    LET c2 == Seen(c1, ws[2]) IN
    IF ~ConnectOK(c2, ws[2])
    THEN [conn |-> NotConnected(c2), out |-> <<ErrorOut("connect")>>, raised |-> FALSE]
    ELSE
    LET c3 == Seen(Connected(c2), ws[3]) IN
    IF ExecuteOK(c3, ws[3]) THEN SQLRows(c3, ws[3])
    ELSE
    LET c4 == Seen(c3, ws[4]) IN
    IF ~ConnectOK(c4, ws[4])
    THEN [conn |-> NotConnected(c4), out |-> <<ErrorOut("connect")>>, raised |-> FALSE]
    ELSE [conn |-> Connected(c4), out |-> <<ErrorOut("query")>>, raised |-> FALSE]

\* the check while the server stays as it is
SQLCheck(c, w) == SQLCheckVia(c, <<w, w, w, w>>)

Check(c, w, t) ==
    CASE c.kind = "FILE" -> FileCheck(c, w)
      [] c.kind = "FOLDER" -> FolderCheck(c, w, t)
      [] OTHER -> SQLCheck(c, w)


\* ------------------------------------------------------------- directory
ConnectorKinds == {"FILE", "FOLDER", "SQL"}

\* BotDatabase.channels: the rows with active = 1 (no ORDER BY: any order)
ActiveChannels == {s \in Channels : directory[s].active}

\* BotDatabase.subscribers
Subscribers(s) == subs[s]

\* ------------------------------------------------------------- scheduler
Task(op, via, conn) == [op |-> op, via |-> via, conn |-> conn]
Idle == [op |-> "idle", queue |-> <<>>, waiting |-> FALSE]

\* JobQueue.jobs() filtered by name.startswith('listener'), of one channel
JobsOf(s) == {j \in jobs : j.cid = s}

\* the connector objects something still refers to
Referenced(js, ts, c) ==
    {j.conn : j \in js}
    \cup {t.conn : t \in {x \in ts : x.op = "listen"}}
    \cup {c.queue[i].conn : i \in DOMAIN c.queue}

Collect(cs, js, ts, c) ==
    [id \in (DOMAIN cs) \cap Referenced(js, ts, c) |-> cs[id]]

NewId(cs) == Min(ConnIds \ DOMAIN cs)

\* ------------------------------------------------------------- __actualize
\* BotService.parse_interval applied to a configured value, by its shape:
\* "num" a number that is not zero, "zero" the number zero (float returns
\* 0.0, which is false in a condition), "time" a wall-clock time, "bad"
\* anything else (parse_interval returns None)

\* a reconciliation that registers no next run
RescheduleNever(n) == n

\* lines 190-198: the 'actualize' jobs after the rescheduling
Reschedule(n) ==
    IF cf.ACTUALIZE_INTERVAL \in {"num", "time"} THEN 1 ELSE n

\* a teardown that keeps no JobInfo of the channels that had a job
TornDownForgets ==
    [s \in Channels |-> [has |-> FALSE, context |-> EmptyContext, state |-> 0]]

\* lines 200-208: the JobInfo of every channel that had a listener job
TornDown ==
    [s \in Channels |->
        IF JobsOf(s) = {}
        THEN [has |-> FALSE, context |-> EmptyContext, state |-> 0]
        ELSE [has |-> TRUE,
              context |-> Context(conns[(CHOOSE j \in JobsOf(s) : TRUE).conn]),
              state |-> -1]]

ClosedAll ==
    [id \in DOMAIN conns |->
        IF \E j \in jobs : j.conn = id THEN Close(conns[id]) ELSE conns[id]]

\* line 225: parse_interval(channel.polling) or parse_interval(cf.POLLING)
JobTime(row) == IF row.polling \in {"num", "time"} THEN row.polling ELSE cf.POLLING

\* lines 210-240: the loop over the active rows, in the order the query
\* returned them; acc.raised is an exception leaving the loop
RECURSIVE Build(_, _)
Build(order, acc) ==
    IF order = <<>> \/ acc.raised THEN acc
    ELSE
    LET s == Head(order)
        row == directory[s]
        ctx == acc.info[s].context
        w == world[s]
    IN  IF row.connector \notin ConnectorKinds
        THEN [acc EXCEPT !.raised = TRUE]
        ELSE IF row.config = "unparsable"
        THEN Build(Tail(order), acc)
        ELSE IF ConstructRaises(row, row.connector, ctx, w)
        THEN [acc EXCEPT !.raised = TRUE]
        ELSE
        LET id == NewId(acc.conns)
            c == Construct(s, row, row.connector, ctx, w, now)
            cs == (id :> c) @@ acc.conns
        IN  IF JobTime(row) = "bad"
            THEN [acc EXCEPT !.conns = cs, !.raised = TRUE]
            ELSE Build(Tail(order),
                   [conns |-> cs,
                    jobs |-> acc.jobs \cup
                        {[cid |-> s, conn |-> id,
                          trig |-> IF JobTime(row) = "time" THEN "daily" ELSE "repeating"]},
                    info |-> [acc.info EXCEPT ![s] =
                        [has |-> TRUE, context |-> EmptyContext,
                         state |-> IF acc.info[s].has THEN acc.info[s].state + 1 ELSE 1]],
                    raised |-> FALSE])

\* a reconciliation that closes the old connectors and leaves their jobs
\* in the queue (what job.schedule_removal() prevents)
RebuiltOverOldJobs(order) ==
    Build(order, [conns |-> ClosedAll, jobs |-> jobs, info |-> TornDown, raised |-> FALSE])

Rebuilt(order) ==
    Build(order, [conns |-> ClosedAll, jobs |-> {}, info |-> TornDown, raised |-> FALSE])

\* lines 242-254: the notices __sendall spawns, one task per subscriber
NoticeOf(state) ==
    IF state = 1 THEN "RESUME" ELSE IF state = -1 THEN "SUSPEND" ELSE "none"

\* the notices sent whatever SILENT_ACTUALIZE says
NoticesAlways(owner, info) ==
    {[owner |-> owner, to |-> u, what |-> NoticeOf(info[s].state), src |-> s, idx |-> 1] :
        <<s, u>> \in {p \in Channels \X Users :
            /\ info[p[1]].has
            /\ NoticeOf(info[p[1]].state) # "none"
            /\ p[2] \in Subscribers(p[1])}}

Notices(owner, info) ==
    IF cf.SILENT_ACTUALIZE THEN {}
    ELSE {[owner |-> owner, to |-> u, what |-> NoticeOf(info[s].state), src |-> s, idx |-> 1] :
            <<s, u>> \in {p \in Channels \X Users :
                /\ info[p[1]].has
                /\ NoticeOf(info[p[1]].state) # "none"
                /\ p[2] \in Subscribers(p[1])}}

\* what a step leaves in `last`
\* had: the channels that had a listener job when a reconciliation started,
\* before: the context each of them handed over, sent: the deliveries the
\* step spawned
NoContexts == [s \in Channels |-> EmptyContext]
Step(op, raised, had, before, sent) ==
    [op |-> op, raised |-> raised, had |-> had, before |-> before, sent |-> sent]
Did(op, raised, had) == Step(op, raised, had, NoContexts, {})
Quiet == Did("other", FALSE, {})

\* the cursor each channel is known by while it stays in the active list:
\* the cursor of its first connector, then whatever its polls produce
ObservedAfter(r, active) ==
    [s \in Channels |->
        IF s \notin active
        THEN [observed[s] EXCEPT !.known = FALSE, !.cursor = EmptyContext]
        ELSE IF observed[s].known THEN observed[s]
        ELSE IF \E j \in r.jobs : j.cid = s
        THEN [observed[s] EXCEPT
                !.known = TRUE,
                !.cursor = Context(r.conns[(CHOOSE j \in r.jobs : j.cid = s).conn])]
        ELSE observed[s]]

\* __actualize up to its first suspension (await asyncio.wait(sent)), called
\* from a job or from the actualize command.  n is the number of
\* 'actualize' jobs in the queue when the body starts.
ActualizeBody(via, n, order) ==
    IF cf.ACTUALIZE_INTERVAL = "bad"
    THEN /\ actualizeJobs' = n
         /\ last' = Did("actualize", TRUE, {})
         /\ UNCHANGED <<conns, jobs, tasks, deliveries, cmd, observed>>
    ELSE
    LET r == Rebuilt(order)
        me == Task("actualize", via, 0)
        sent == IF r.raised THEN {} ELSE Notices(me, r.info)
        ts == IF sent = {} THEN tasks ELSE tasks \cup {me}
        c == IF via = "cmd" /\ sent # {}
             THEN [op |-> "actualize", queue |-> <<>>, waiting |-> TRUE]
             ELSE cmd
    IN  /\ actualizeJobs' = Reschedule(n)
        /\ jobs' = r.jobs
        /\ tasks' = ts
        /\ deliveries' = deliveries \cup sent
        /\ cmd' = c
        /\ conns' = Collect(r.conns, r.jobs, ts, c)
        /\ observed' = ObservedAfter(r, ActiveChannels)
        /\ last' = Step("actualize", r.raised, {x \in Channels : JobsOf(x) # {}},
                         [x \in Channels |-> TornDown[x].context], sent)

RoomToBuild == Cardinality(DOMAIN conns) + Cardinality(Channels) <= MaxConn

\* _onstart: the first reconciliation
OnStart ==
    /\ onstart
    /\ onstart' = FALSE
    /\ \E order \in Orders(ActiveChannels) : ActualizeBody("job", actualizeJobs, order)
    /\ UNCHANGED <<now, cf, kind, directory, subs, world, user_data, silentJobs>>

\* the scheduler runs the 'actualize' job (run_once: the job leaves the
\* queue as it fires)
ScheduledActualize ==
    /\ actualizeJobs > 0
    /\ Task("actualize", "job", 0) \notin tasks
    /\ RoomToBuild
    /\ \E order \in Orders(ActiveChannels) :
         ActualizeBody("job", actualizeJobs - 1, order)
    /\ UNCHANGED <<now, cf, kind, directory, subs, world, user_data, silentJobs, onstart>>

\* BotService.actualize, the command
CmdActualize ==
    /\ cmd = Idle
    /\ RoomToBuild
    /\ \E order \in Orders(ActiveChannels) :
         ActualizeBody("cmd", actualizeJobs, order)
    /\ UNCHANGED <<now, cf, kind, directory, subs, world, user_data, silentJobs, onstart>>

\* ------------------------------------------------------------- __listen
NoTime == [set |-> FALSE, until |-> 0]
Until(t) == [set |-> TRUE, until |-> t]

\* lines 270-271: SLEEP_TIME and SLEEP_TIME > now
Suppressed(u) ==
    user_data[u].SLEEP_TIME.set /\ user_data[u].SLEEP_TIME.until > now

\* a poll that sends only the first message of the tuple
ListenOnFirstOnly(cs, id, via, r) ==
    LET c == cs[id]
        me == Task("listen", via, id)
        sent == IF r.raised \/ r.out = <<>> THEN {}
                ELSE {[owner |-> me, to |-> u, what |-> "CHANGE", src |-> c.cid, idx |-> 1] :
                        u \in {v \in Subscribers(c.cid) : ~Suppressed(v)}}
    IN  [conns |-> [cs EXCEPT ![id] = r.conn],
         sent |-> sent,
         raised |-> r.raised \/ (r.out # <<>> /\ sent = {}),
         out |-> r.out,
         checkraised |-> r.raised,
         task |-> IF sent = {} THEN {} ELSE {me}]

\* __listen on connector id up to its first suspension; r is what the
\* connector's check did
ListenOn(cs, id, via, r) ==
    LET c == cs[id]
        me == Task("listen", via, id)
        sent == IF r.raised \/ r.out = <<>> THEN {}
                ELSE {[owner |-> me, to |-> u, what |-> "CHANGE", src |-> c.cid, idx |-> i] :
                        <<u, i>> \in {p \in Subscribers(c.cid) \X DOMAIN r.out :
                                        ~Suppressed(p[1])}}
    IN  [conns |-> [cs EXCEPT ![id] = r.conn],
         sent |-> sent,
         \* await asyncio.wait([]) raises ValueError
         raised |-> r.raised \/ (r.out # <<>> /\ sent = {}),
         out |-> r.out,
         checkraised |-> r.raised,
         task |-> IF sent = {} THEN {} ELSE {me}]

Listen(cs, id, via) == ListenOn(cs, id, via, Check(cs[id], world[cs[id].cid], now))

\* the history follows the connector of a channel's current job
Polled(cs) ==
    [s \in Channels |->
        IF JobsOf(s) # {} /\ observed[s].known
        THEN [observed[s] EXCEPT
                !.cursor = Context(cs[(CHOOSE j \in JobsOf(s) : TRUE).conn])]
        ELSE observed[s]]

\* the ordering values of the rows in the tuple a check of c returned
RowsOf(c, out) ==
    IF c.kind = "SQL"
    THEN {out[i].order : i \in {k \in DOMAIN out : "order" \in DOMAIN out[k]}}
    ELSE {}

\* history of the rows the checks of a channel's connectors returned:
\* reported are the rows returned so far, twice those returned again
Reporting(obs, s, rows) ==
    [obs EXCEPT ![s] = [@ EXCEPT !.twice = @ \cup (rows \cap obs[s].reported),
                                 !.reported = @ \cup rows]]

\* the history of rows as seen, the rest as obs has it
WithRows(obs, seen) ==
    [s \in Channels |->
        [obs[s] EXCEPT !.reported = seen[s].reported, !.twice = seen[s].twice]]

\* what a poll did: the connector before and after its check, and the
\* tuple the check returned
Poll(r, id) ==
    [op |-> "listen", raised |-> r.raised, had |-> {}, before |-> NoContexts,
     sent |-> r.sent, pre |-> conns[id], post |-> r.conns[id], out |-> r.out,
     checkraised |-> r.checkraised]

\* the scheduler runs a listener job (at most one instance of a job at a time)
ScheduledListen ==
    \E j \in jobs :
        /\ Task("listen", "job", j.conn) \notin tasks
        /\ LET r == Listen(conns, j.conn, "job") IN
            /\ conns' = r.conns
            /\ observed' = Reporting(Polled(r.conns), j.cid, RowsOf(conns[j.conn], r.out))
            /\ deliveries' = deliveries \cup r.sent
            /\ tasks' = tasks \cup r.task
            /\ last' = Poll(r, j.conn)
        /\ UNCHANGED <<now, cf, kind, directory, subs, world, jobs, actualizeJobs,
                       cmd, user_data, silentJobs, onstart>>

\* the states the server of a table can be in: reachable or not, the
\* table and its ordering column there or not
ServerStates(w) == {[w EXCEPT !.up = u, !.tableok = t] : u, t \in BOOLEAN}

\* the states the four calls of one check find the server in: it changes
\* at most once while the check runs
Flaps(w) ==
    {ws \in [1..4 -> ServerStates(w)] :
        /\ ws[1] = w
        /\ \A i \in 1..2 : ws[i] # ws[i + 1] => ws[i + 2] = ws[i + 1]
        /\ ws[1] # ws[2] => ws[4] = ws[2]}

\* the scheduler runs the listener job of a table while the server comes
\* and goes: each call of the check finds the server in a state of its own
TablePoll ==
    \E j \in jobs :
        /\ conns[j.conn].kind = "SQL"
        /\ Task("listen", "job", j.conn) \notin tasks
        /\ \E ws \in Flaps(world[j.cid]) :
            /\ LET r == ListenOn(conns, j.conn, "job", SQLCheckVia(conns[j.conn], ws)) IN
                /\ conns' = r.conns
                /\ observed' = Reporting(Polled(r.conns), j.cid,
                                          RowsOf(conns[j.conn], r.out))
                /\ deliveries' = deliveries \cup r.sent
                /\ tasks' = tasks \cup r.task
                /\ last' = [op |-> "tablepoll", raised |-> r.raised, had |-> {},
                            before |-> NoContexts, sent |-> r.sent,
                            pre |-> conns[j.conn], post |-> r.conns[j.conn],
                            out |-> r.out, checkraised |-> r.checkraised, ws |-> ws]
            /\ world' = [world EXCEPT ![j.cid] = ws[4]]
        /\ UNCHANGED <<now, cf, kind, directory, subs, jobs, actualizeJobs,
                       cmd, user_data, silentJobs, onstart>>

\* BotService.check runs the callbacks of the jobs it listed, one after the
\* other, until one suspends (in its deliveries, or in the error handler
\* when it raised).  cur is the job the loop variable refers to; polled
\* are the connectors whose check the loop called, as they were before it.
RECURSIVE CheckLoop(_, _)
CheckLoop(queue, acc) ==
    IF queue = <<>> \/ acc.stop THEN [acc EXCEPT !.queue = queue]
    ELSE LET r == Listen(acc.conns, Head(queue).conn, "cmd") IN
         CheckLoop(Tail(queue),
            [conns |-> r.conns, sent |-> acc.sent \cup r.sent, task |-> r.task,
             stop |-> r.raised \/ r.task # {}, raised |-> r.raised,
             cur |-> <<Head(queue)>>, queue |-> <<>>,
             polled |-> acc.polled \cup {acc.conns[Head(queue).conn]},
             seen |-> Reporting(acc.seen, acc.conns[Head(queue).conn].cid,
                                RowsOf(acc.conns[Head(queue).conn], r.out))])

\* the loop goes on with the jobs of queue; once they have all run the
\* handler awaits its closing reply, the loop variable still referring to
\* the last job
CheckFrom(queue, ts) ==
    LET r == CheckLoop(queue, [conns |-> conns, sent |-> {}, task |-> {}, stop |-> FALSE,
                               raised |-> FALSE, cur |-> <<>>, queue |-> <<>>,
                               polled |-> {}, seen |-> observed])
        c == IF queue = <<>> THEN Idle
             ELSE [op |-> "check", queue |-> r.cur \o r.queue, waiting |-> r.task # {}]
    IN  /\ cmd' = c
        /\ tasks' = ts \cup r.task
        /\ deliveries' = deliveries \cup r.sent
        /\ conns' = Collect(r.conns, jobs, ts \cup r.task, c)
        /\ observed' = WithRows(Polled(r.conns), r.seen)
        /\ last' = [op |-> "check", raised |-> r.raised, had |-> {},
                    before |-> NoContexts, sent |-> r.sent, polled |-> r.polled]

\* the check command, with at least one listener job to run
CmdCheck ==
    /\ cmd = Idle
    /\ jobs # {}
    /\ \E order \in Orders(jobs) : CheckFrom(order, tasks)
    /\ UNCHANGED <<now, cf, kind, directory, subs, world, jobs, actualizeJobs,
                   user_data, silentJobs, onstart>>

\* the command resumes: what it awaited (the deliveries of a poll, the
\* error handler, the closing reply) has completed
CmdCheckResume ==
    /\ cmd.op = "check"
    /\ LET mine == {t \in tasks : t.via = "cmd"} IN
        /\ \A d \in deliveries : d.owner \notin mine
        /\ CheckFrom(Tail(cmd.queue), tasks \ mine)
    /\ UNCHANGED <<now, cf, kind, directory, subs, world, jobs, actualizeJobs,
                   user_data, silentJobs, onstart>>

\* ------------------------------------------------------------- deliveries
\* a __send_by_parts task settles (delivered, or abandoned)
Settle ==
    \E d \in deliveries :
        /\ deliveries' = deliveries \ {d}
        /\ last' = Quiet
        /\ UNCHANGED <<now, cf, kind, directory, subs, world, conns, jobs, actualizeJobs,
                       tasks, cmd, user_data, silentJobs, onstart, observed>>

\* a coroutine that ends without waiting for its deliveries
FinishEarly ==
    \E t \in tasks :
        /\ t.via = "job" \/ t.op = "actualize"
        /\ tasks' = tasks \ {t}
        /\ cmd' = IF t.via = "cmd" THEN Idle ELSE cmd
        /\ conns' = Collect(conns, jobs, tasks', cmd')
        /\ last' = Quiet
        /\ UNCHANGED <<now, cf, kind, directory, subs, world, jobs, actualizeJobs,
                       deliveries, user_data, silentJobs, onstart, observed>>

\* asyncio.wait(sent) returns: the coroutine logs and ends
Finish ==
    \E t \in tasks :
        /\ \A d \in deliveries : d.owner # t
        /\ t.via = "job" \/ t.op = "actualize"
        /\ tasks' = tasks \ {t}
        /\ cmd' = IF t.via = "cmd" THEN Idle ELSE cmd
        /\ conns' = Collect(conns, jobs, tasks', cmd')
        /\ last' = Quiet
        /\ UNCHANGED <<now, cf, kind, directory, subs, world, jobs, actualizeJobs,
                       deliveries, user_data, silentJobs, onstart, observed>>

\* ------------------------------------------------------------- __send_by_parts
\* A delivery task in detail.  what is the message, a sequence of
\* characters; bound is the offset of the part the loop is at; elapsed is
\* time.monotonic() - started, in retry intervals; attempts counts the
\* send_message calls made for the part; log lists the parts the loop has
\* left, each sent or expired.
Messages == UNION {[1..n -> {"x", "y"}] : n \in 0..MaxLen}

\* a slice one character short
PartShort(message, bound, n) ==
    SubSeq(message, bound + 1, Min({bound + n, Len(message)}) - 1)

\* message[bound:bound + LENGTH]
Part(message, bound, n) == SubSeq(message, bound + 1, Min({bound + n, Len(message)}))

\* the latest part put in front of the earlier ones
LeftNewestFirst(d, how) ==
    [d EXCEPT !.log = <<[part |-> Part(d.what, d.bound, cf.TEXT_MAX_LENGTH),
                         at |-> d.bound, how |-> how, attempts |-> d.attempts]>> \o @,
              !.bound = @ + cf.TEXT_MAX_LENGTH,
              !.attempts = 0]

\* the part at d.bound is left behind, as sent or as expired
Left(d, how) ==
    [d EXCEPT !.log = Append(@, [part |-> Part(d.what, d.bound, cf.TEXT_MAX_LENGTH),
                                 at |-> d.bound, how |-> how, attempts |-> d.attempts]),
              !.bound = @ + cf.TEXT_MAX_LENGTH,
              !.attempts = 0]

\* the loops run on without suspending while a part is left and the
\* while condition (elapsed <= LIFETIME) is false: the part expires
RECURSIVE Advance(_)
Advance(d) ==
    IF d.bound < Len(d.what) /\ d.elapsed > cf.NOTIFICATION_LIFETIME
    THEN Advance(Left(d, "expired"))
    ELSE d

\* a clock that never gets past the lifetime
AttemptedClockWraps(d, ok) ==
    IF ok THEN Left([d EXCEPT !.attempts = @ + 1], "sent")
    ELSE [d EXCEPT !.attempts = 1,
                   !.elapsed = (@ + cf.RETRY_INTERVAL) % (cf.NOTIFICATION_LIFETIME + 1)]

\* send_message returns (ok) or raises; after a failure the task sleeps
\* RETRY_INTERVAL
Attempted(d, ok) ==
    IF ok THEN Left([d EXCEPT !.attempts = @ + 1], "sent")
    ELSE [d EXCEPT !.attempts = @ + 1, !.elapsed = @ + cf.RETRY_INTERVAL]

\* __sendall: one task per message and recipient
SendAll(owner, users, messages) ==
    {[owner |-> owner, to |-> u, what |-> messages[i], src |-> 0, idx |-> i,
      bound |-> 0, elapsed |-> 0, attempts |-> 0, log |-> <<>>] :
        <<u, i>> \in users \X DOMAIN messages}

\* a coroutine hands one message for some recipients to __sendall and
\* awaits asyncio.wait(sent)
DispatchTo(audiences) ==
    /\ tasks = {}
    /\ deliveries = {}
    /\ \E S \in Messages : \E R \in audiences :
        /\ deliveries' = SendAll(Task("dispatch", "job", 0), R, <<S>>)
        /\ tasks' = {Task("dispatch", "job", 0)}
    /\ last' = Did("dispatch", FALSE, {})
    /\ UNCHANGED <<now, cf, kind, directory, subs, world, conns, jobs, actualizeJobs,
                   cmd, user_data, silentJobs, onstart, observed>>

\* to any recipients; to one recipient; to both
Dispatch == DispatchTo((SUBSET Users) \ {{}})
DispatchOne == DispatchTo({{"u1"}})
DispatchPair == DispatchTo({Users})

\* a delivery task runs from one await to the next: the send_message it
\* awaited returns or raises, and the loops go on to the next send_message
\* or to the end of the task
SendBody(d, ok) ==
    LET d1 == Advance(d)
        d2 == IF d1.bound < Len(d1.what) THEN Advance(Attempted(d1, ok)) ELSE d1
    IN  /\ deliveries' = (deliveries \ {d}) \cup
                (IF d2.bound < Len(d2.what) THEN {d2} ELSE {})
        /\ last' = IF d2.bound < Len(d2.what) THEN Quiet
                   ELSE Step("settled", FALSE, {}, NoContexts, {d2})
        /\ UNCHANGED <<now, cf, kind, directory, subs, world, conns, jobs,
                       actualizeJobs, tasks, cmd, user_data, silentJobs, onstart,
                       observed>>

\* deliveries awaited one after the other, in the order of the recipients:
\* the task for u2 runs once the task for u1 has settled
SendStepInTurn(d) ==
    /\ \A e \in deliveries : (e.owner = d.owner /\ d.to = "u2") => e.to # "u1"
    /\ \E ok \in BOOLEAN : SendBody(d, ok)

\* asyncio.create_task: each delivery is a task of its own, resumed when
\* the send_message or the sleep it awaits completes
SendStepOf(d) == \E ok \in BOOLEAN : SendBody(d, ok)

SendStep == \E d \in deliveries : SendStepOf(d)

\* ------------------------------------------------------------- silent
\* BotService.silent: the window is stored under ContextSegment.SILENT_MODE
\* and a __silent_off job is scheduled for its end
Silent(u, until) ==
    /\ cmd = Idle
    /\ until > now
    /\ user_data' = [user_data EXCEPT ![u].SILENT_MODE = Until(until)]
    /\ silentJobs' = silentJobs \cup {[user |-> u, at |-> until]}
    /\ last' = Did("silent", FALSE, {})
    /\ UNCHANGED <<now, cf, kind, directory, subs, world, conns, jobs, actualizeJobs,
                   tasks, deliveries, cmd, onstart, observed>>

\* BotService.__silent_off, run by its job when the time has come
SilentOff ==
    \E j \in silentJobs :
        /\ j.at <= now
        /\ user_data' = [user_data EXCEPT ![j.user].SILENT_MODE = NoTime]
        /\ silentJobs' = silentJobs \ {j}
        /\ last' = Quiet
        /\ UNCHANGED <<now, cf, kind, directory, subs, world, conns, jobs, actualizeJobs,
                       tasks, deliveries, cmd, onstart, observed>>

\* ------------------------------------------------------------- environment
Tick ==
    /\ now < MaxTime
    /\ now' = now + 1
    /\ last' = Quiet
    /\ UNCHANGED <<cf, kind, directory, subs, world, conns, jobs, actualizeJobs,
                   tasks, deliveries, cmd, user_data, silentJobs, onstart, observed>>

\* BotService.reload: the parameter table is read again
Reload(c) ==
    /\ cmd = Idle
    /\ cf' = c
    /\ cf' # cf
    /\ last' = Quiet
    /\ UNCHANGED <<now, kind, directory, subs, world, conns, jobs, actualizeJobs,
                   tasks, deliveries, cmd, user_data, silentJobs, onstart, observed>>

\* somebody edits a row of TRACKER.channel
SetRow(s, row) ==
    /\ directory' = [directory EXCEPT ![s] = row]
    /\ directory' # directory
    /\ last' = Quiet
    /\ UNCHANGED <<now, cf, kind, world, subs, conns, jobs, actualizeJobs,
                   tasks, deliveries, cmd, user_data, silentJobs, onstart, observed>>

\* the watched thing changes: the connections to a server that went away
\* are broken
SetWorld(s, w) ==
    /\ world' = [world EXCEPT ![s] = w]
    /\ world' # world
    /\ conns' = [id \in DOMAIN conns |->
                    IF conns[id].cid = s /\ conns[id].db = "open" /\ ~w.up
                    THEN [conns[id] EXCEPT !.db = "broken"] ELSE conns[id]]
    /\ last' = Quiet
    /\ UNCHANGED <<now, cf, kind, directory, subs, jobs, actualizeJobs,
                   tasks, deliveries, cmd, user_data, silentJobs, onstart, observed>>

\* the file is written, a file appears in or leaves the folder, a row is
\* inserted with the current time in its ordering column
Touched(s) ==
    LET w == world[s] IN
    CASE kind[s] = "FILE" -> {[w EXCEPT !.mtime = now]}
      [] kind[s] = "FOLDER" ->
            {[w EXCEPT !.files = IF "a" \in w.files THEN w.files \ {"a"}
                                 ELSE w.files \cup {"a"}]}
      [] OTHER -> {[w EXCEPT !.rows = w.rows \cup {now}]}

Touch1 == \E w \in Touched(1) : SetWorld(1, w)

\* files appear in and leave the watched folder, the folder itself is
\* removed and made again
TreeNames == {"a", "b"}

TreeChange ==
    \E ex \in BOOLEAN : \E fs \in SUBSET TreeNames :
        SetWorld(1, [world[1] EXCEPT !.exists = ex, !.files = IF ex THEN fs ELSE {}])

\* the watched file is written (with any modification time), removed,
\* made unreadable
FileChange ==
    \E ex \in BOOLEAN : \E m \in 0..MaxTime : \E rd \in BOOLEAN :
        SetWorld(1, [world[1] EXCEPT !.exists = ex, !.mtime = m, !.readable = rd])

\* a row is inserted into the watched table, with any value in its
\* ordering column (the clock of the writer need not be the local one)
RowInserted ==
    \E v \in 0..MaxTime : SetWorld(1, [world[1] EXCEPT !.rows = @ \cup {v}])

\* the server of the table goes away and comes back, the table is
\* dropped and made again
ServerChange == \E w \in ServerStates(world[1]) : SetWorld(1, w)

\* the trigger of channel 1 is set in its row's config
EditTrigger1 ==
    \E tr \in {"ADD", "DEL", "ANY"} : SetRow(1, [directory[1] EXCEPT !.trigger = tr])
Touch2 == \E w \in Touched(2) : SetWorld(2, w)

\* ------------------------------------------------------------- tracker.py
\* tracker.py is the same service as one module.  Its _actualize tears the
\* listener jobs down, builds them again with nothing guarded, sends the
\* notices one awaited send_message after the other, and registers its
\* next run last.

\* parse_jobtime(channel['polling'], default=DefaultConfig.POLLING)
TrackerJobTime(row) == IF row.polling \in {"num", "time"} THEN row.polling ELSE "num"

\* lines 276-287: the loop over the active rows; an unknown connector name,
\* a config json.loads rejects and a constructor that raises all leave it
RECURSIVE TrackerBuild(_, _)
TrackerBuild(order, acc) ==
    IF order = <<>> \/ acc.raised THEN acc
    ELSE
    LET s == Head(order)
        row == directory[s]
        ctx == acc.info[s].context
        w == world[s]
    IN  IF \/ row.connector \notin ConnectorKinds
           \/ row.config = "unparsable"
           \/ ConstructRaises(row, row.connector, ctx, w)
        THEN [acc EXCEPT !.raised = TRUE]
        ELSE
        LET id == NewId(acc.conns) IN
        TrackerBuild(Tail(order),
            [acc EXCEPT
                !.conns = (id :> Construct(s, row, row.connector, ctx, w, now)) @@ acc.conns,
                !.jobs = acc.jobs \cup
                    {[cid |-> s, conn |-> id,
                      trig |-> IF TrackerJobTime(row) = "time" THEN "daily" ELSE "repeating"]}])

TrackerRebuilt(order) ==
    TrackerBuild(order, [conns |-> ClosedAll, jobs |-> {}, info |-> TornDown, raised |-> FALSE])

\* lines 289-296: RESUME for set(active) - set(current), SUSPEND for
\* set(current) - set(active), one send per subscriber
TrackerNotices(owner, current) ==
    IF cf.SILENT_ACTUALIZE THEN {}
    ELSE {[owner |-> owner, to |-> u, src |-> s, idx |-> 1,
           what |-> IF s \in ActiveChannels THEN "RESUME" ELSE "SUSPEND"] :
            <<s, u>> \in {p \in Channels \X Users :
                /\ p[1] \in (ActiveChannels \ current) \cup (current \ ActiveChannels)
                /\ p[2] \in Subscribers(p[1])}}

\* lines 298-306: the 'actualize' jobs after the registration; a value
\* parse_jobtime rejects raises and registers nothing
TrackerReschedule(n) ==
    IF cf.ACTUALIZE_INTERVAL \in {"num", "time"} THEN 1 ELSE n

\* _actualize up to its first await (or to its end when it sends nothing)
TrackerBody(via, n, order) ==
    LET r == TrackerRebuilt(order)
        current == {x \in Channels : JobsOf(x) # {}}
        me == Task("actualize", via, 0)
        sent == IF r.raised THEN {} ELSE TrackerNotices(me, current)
        ts == IF sent = {} THEN tasks ELSE tasks \cup {me}
        c == IF via = "cmd" /\ sent # {}
             THEN [op |-> "actualize", queue |-> <<>>, waiting |-> TRUE]
             ELSE cmd
    IN  /\ actualizeJobs' = IF r.raised \/ sent # {} THEN n ELSE TrackerReschedule(n)
        /\ jobs' = r.jobs
        /\ tasks' = ts
        /\ deliveries' = deliveries \cup sent
        /\ cmd' = c
        /\ conns' = Collect(r.conns, r.jobs, ts, c)
        /\ observed' = ObservedAfter(r, ActiveChannels)
        /\ last' = Step("actualize",
                         r.raised \/ (sent = {} /\ cf.ACTUALIZE_INTERVAL = "bad"),
                         current, [x \in Channels |-> TornDown[x].context], sent)

TrackerOnStart ==
    /\ onstart
    /\ onstart' = FALSE
    /\ \E order \in Orders(ActiveChannels) : TrackerBody("job", actualizeJobs, order)
    /\ UNCHANGED <<now, cf, kind, directory, subs, world, user_data, silentJobs>>

TrackerScheduled ==
    /\ actualizeJobs > 0
    /\ Task("actualize", "job", 0) \notin tasks
    /\ RoomToBuild
    /\ \E order \in Orders(ActiveChannels) :
         TrackerBody("job", actualizeJobs - 1, order)
    /\ UNCHANGED <<now, cf, kind, directory, subs, world, user_data, silentJobs, onstart>>

TrackerCmd ==
    /\ cmd = Idle
    /\ RoomToBuild
    /\ \E order \in Orders(ActiveChannels) :
         TrackerBody("cmd", actualizeJobs, order)
    /\ UNCHANGED <<now, cf, kind, directory, subs, world, user_data, silentJobs, onstart>>

\* an awaited send_message returns; after the last one _actualize
\* registers its next run and ends
TrackerSent ==
    \E d \in deliveries :
        LET t == d.owner
            left == {x \in deliveries \ {d} : x.owner = t}
        IN  /\ t.op = "actualize"
            /\ deliveries' = deliveries \ {d}
            /\ tasks' = IF left = {} THEN tasks \ {t} ELSE tasks
            /\ actualizeJobs' = IF left = {} THEN TrackerReschedule(actualizeJobs)
                                 ELSE actualizeJobs
            /\ cmd' = IF left = {} /\ t.via = "cmd" THEN Idle ELSE cmd
            /\ last' = Did("sent", left = {} /\ cf.ACTUALIZE_INTERVAL = "bad", {})
            /\ UNCHANGED <<now, cf, kind, directory, subs, world, conns, jobs,
                           user_data, silentJobs, onstart, observed>>

\* an awaited send_message raises: _actualize ends there
TrackerSendFails ==
    \E d \in deliveries :
        LET t == d.owner IN
            /\ t.op = "actualize"
            /\ deliveries' = {x \in deliveries : x.owner # t}
            /\ tasks' = tasks \ {t}
            /\ cmd' = IF t.via = "cmd" THEN Idle ELSE cmd
            /\ last' = Did("sent", TRUE, {})
            /\ UNCHANGED <<now, cf, kind, directory, subs, world, conns, jobs,
                           actualizeJobs, user_data, silentJobs, onstart, observed>>

\* ------------------------------------------------------------- Spec
DefaultWorld ==
    [exists |-> TRUE, subdirs |-> FALSE, mtime |-> 0, readable |-> TRUE,
     files |-> {}, up |-> TRUE, tableok |-> TRUE, rows |-> {}]

Row(k, o) ==
    [active |-> TRUE, connector |-> k, config |-> "ok", polling |-> "num",
     order |-> o, trigger |-> "ANY"]

DefaultConfig ==
    [ACTUALIZE_INTERVAL |-> "num", SILENT_ACTUALIZE |-> FALSE, POLLING |-> "num"]

KindChoices == {"FILE", "FOLDER", "SQL", "SQLX"}
KindOf(x) == IF x = "SQLX" THEN "SQL" ELSE x
OrderOf(x) == IF x = "SQLX" THEN "other" ELSE "dt"

\* the state after construction, for the kinds ks of the channels, the
\* subscriptions sb and the configuration c
Start(ks, sb, c) ==
    /\ now = 0
    /\ cf = c
    /\ kind = [s \in Channels |-> KindOf(ks[s])]
    /\ directory = [s \in Channels |-> Row(KindOf(ks[s]), OrderOf(ks[s]))]
    /\ subs = sb
    /\ world = [s \in Channels |-> DefaultWorld]
    /\ conns = <<>>
    /\ jobs = {}
    /\ actualizeJobs = 0
    /\ tasks = {}
    /\ deliveries = {}
    /\ cmd = Idle
    /\ user_data = [u \in Users |-> [SILENT_MODE |-> NoTime, SLEEP_TIME |-> NoTime]]
    /\ silentJobs = {}
    /\ onstart = TRUE
    /\ observed = [s \in Channels |-> [known |-> FALSE, cursor |-> EmptyContext,
                                        reported |-> {}, twice |-> {}]]
    /\ last = Did("init", FALSE, {})

\* the rows a channel's row may be changed to: switched off, made
\* unparsable (json.loads raises), given a config that is no mapping, given
\* a connector name ConnectorMap does not hold
Healthy(s) == [directory[s] EXCEPT !.active = TRUE, !.connector = kind[s], !.config = "ok"]
SwitchedOff(s) == [Healthy(s) EXCEPT !.active = FALSE]
Unparsable(s) == [Healthy(s) EXCEPT !.config = "unparsable"]
NonMapping(s) == [Healthy(s) EXCEPT !.config = "nonmap"]
Unknown(s) == [Healthy(s) EXCEPT !.connector = "FTP"]

\* Spec: the cursors.  Channel 1 is of any kind; it is polled, the thing
\* it watches changes, and its row is switched off and on and made
\* unparsable.  Nobody is subscribed, and the reconciliations are the
\* scheduled ones.
Init ==
    \E k \in KindChoices :
        Start([s \in Channels |-> IF s = 1 THEN k ELSE "FILE"],
              [s \in Channels |-> {}], DefaultConfig)

EditRow1 == \E r \in {Healthy(1), SwitchedOff(1), Unparsable(1)} : SetRow(1, r)

Next ==
    \/ OnStart
    \/ ScheduledActualize
    \/ ScheduledListen
    \/ Tick
    \/ Touch1
    \/ EditRow1

Spec == Init /\ [][Next]_vars

\* the connector of the channel's listener job
ConnOf(s) == conns[(CHOOSE j \in JobsOf(s) : TRUE).conn]

\* two cursors are the same: the same instant (or ordering value) and the
\* same snapshot of files
SameCursor(a, b) == a.modified.v = b.modified.v /\ a.files = b.files

\* C1: a source that had a listener job and whose row is the same at the
\* next reconciliation gets a connector whose cursor equals the cursor its
\* previous connector held when it was closed, whatever the connector kind.
C1_CursorCarriedOver ==
    \A s \in Channels :
        (/\ last.op = "actualize"
         /\ ~last.raised
         /\ s \in last.had
         /\ directory[s] = Healthy(s))
        => /\ JobsOf(s) # {}
           /\ SameCursor(Context(ConnOf(s)), last.before[s])

\* C2: while a source stays in the active list, the cursor of its current
\* connector is the one it was first observed with or the one its last
\* poll produced, never a freshly initialised one.
C2_CursorNeverReset ==
    \A s \in Channels :
        (observed[s].known /\ JobsOf(s) # {})
        => SameCursor(Context(ConnOf(s)), observed[s].cursor)

\* the connector the constructor builds from the declared parameters of
\* c's source and the rebuild context of c
BuiltFrom(c) ==
    Construct(c.cid, directory[c.cid], c.kind, Context(c), world[c.cid], now)

\* C33: for every connector there is, of any kind and with any cursor it
\* has reached, the connector constructed with the same declared
\* parameters and its rebuild context has the same rebuild context.
C33_ContextRoundTrip ==
    \A id \in DOMAIN conns : Context(BuiltFrom(conns[id])) = Context(conns[id])

\* SpecJobs: the listener jobs and the notices.  Both channels watch a
\* file that does not change; the row of channel 1 is switched off and on
\* and made unparsable, the row of channel 2 is given a config that is no
\* mapping and a connector name that does not exist; u1 is subscribed to
\* both channels.
InitJobs ==
    Start([s \in Channels |-> "FILE"], [s \in Channels |-> {"u1"}], DefaultConfig)

EditRow2 == \E r \in {Healthy(2), NonMapping(2), Unknown(2)} : SetRow(2, r)

NextJobs ==
    \/ OnStart
    \/ ScheduledActualize
    \/ CmdActualize
    \/ ScheduledListen
    \/ Settle
    \/ Finish
    \/ EditRow1
    \/ EditRow2

SpecJobs == InitJobs /\ [][NextJobs]_vars

\* C3: whatever reconciliations (scheduled or by command) and polls have
\* run, no source id has more than one listener job.
C3_AtMostOneJob == \A s \in Channels : Cardinality(JobsOf(s)) <= 1

\* a reconciliation has just rebuilt the job of a source that already had one
C3_Witness ==
    /\ last.op = "actualize"
    /\ \E s \in last.had : Cardinality(JobsOf(s)) = 1

\* C5: when a reconciliation finds a source that had a job no longer in
\* the active list, it spawns exactly one suspend notice per subscriber of
\* that source and leaves no job for it.
C5_SuspendNotice ==
    \A s \in Channels :
        (/\ last.op = "actualize"
         /\ s \in last.had
         /\ s \notin ActiveChannels)
        => /\ JobsOf(s) = {}
           /\ \A u \in Subscribers(s) :
                Cardinality({d \in last.sent :
                    d.src = s /\ d.to = u /\ d.what = "SUSPEND"}) = 1

\* C7: when building the job of one source fails in a reconciliation,
\* every other active source (one whose own row is sound) has exactly one
\* listener job after that reconciliation.
C7_FailureIsolated ==
    \A s \in Channels :
        (/\ last.op = "actualize"
         /\ s \in ActiveChannels
         /\ directory[s] = Healthy(s))
        => Cardinality(JobsOf(s)) = 1

\* the notice a cycle owes a source: RESUME to one that is in the active
\* list and had no job, SUSPEND to one that had a job and is not in the
\* active list, none otherwise
Owed(s, had) ==
    IF s \in ActiveChannels /\ s \notin had THEN {"RESUME"}
    ELSE IF s \in had /\ s \notin ActiveChannels THEN {"SUSPEND"}
    ELSE {}

\* C21: a reconciliation that ran to its notices sends a source with
\* subscribers the resume notice exactly when the source is in the active
\* list and had no job, the suspend notice exactly when it had a job and
\* is not in the active list, and nothing otherwise.
C21_Classified ==
    (last.op = "actualize" /\ ~last.raised)
    => \A s \in Channels :
        Subscribers(s) # {}
        => {d.what : d \in {x \in last.sent : x.src = s}} = Owed(s, last.had)

\* SpecQuiet: reconciliations with SILENT_ACTUALIZE switched on and off in
\* the configuration.  Both channels are files with u1 subscribed; the row
\* of channel 1 is switched off and on and made unparsable.
ReloadSilent == \E b \in BOOLEAN : Reload([cf EXCEPT !.SILENT_ACTUALIZE = b])

NextQuiet ==
    \/ OnStart
    \/ ScheduledActualize
    \/ CmdActualize
    \/ Settle
    \/ Finish
    \/ EditRow1
    \/ ReloadSilent

SpecQuiet == InitJobs /\ [][NextQuiet]_vars

\* the sources a reconciliation that ran through leaves with a job: those
\* in the active list whose config parses
Scheduled == {s \in ActiveChannels : directory[s].config # "unparsable"}

\* C28: a reconciliation that runs with SILENT_ACTUALIZE set sends no
\* notice to anyone, and the listener jobs it leaves are those a
\* reconciliation leaves with the flag unset: one for each source of the
\* active list whose config parses, whatever the flag.
C28_SilentSameJobs ==
    (last.op = "actualize" /\ ~last.raised)
    => /\ cf.SILENT_ACTUALIZE => last.sent = {}
       /\ \A s \in Channels :
            Cardinality(JobsOf(s)) = IF s \in Scheduled THEN 1 ELSE 0

\* with the flag set a reconciliation gave a job to a source that had
\* none and has a subscriber, and kept the job of another
C28_Witness ==
    /\ last.op = "actualize" /\ ~last.raised
    /\ cf.SILENT_ACTUALIZE
    /\ \E s \in Scheduled : s \notin last.had /\ Subscribers(s) # {}
    /\ \E s \in Scheduled : s \in last.had

\* the notices of another reconciliation, one that is still awaiting them
StillAwaited == {d \in deliveries \ last.sent : d.owner.op = "actualize"}

\* the resume notices among ds for subscriber u of source s
Resumes(ds, s, u) == {d \in ds : d.src = s /\ d.to = u /\ d.what = "RESUME"}

\* C38: a reconciliation that ran through while another one, scheduled or
\* commanded, was still awaiting its notices leaves every source of the
\* active list whose config parses with exactly one listener job, and
\* sends a subscriber of such a source one resume notice when the source
\* had no job and none when it had one (the other reconciliation built it
\* and sent the notice).
C38_OverlappingCycles ==
    (last.op = "actualize" /\ ~last.raised /\ StillAwaited # {})
    => \A s \in Scheduled :
        /\ Cardinality(JobsOf(s)) = 1
        /\ \A u \in Subscribers(s) :
            Cardinality(Resumes(last.sent, s, u)) = IF s \in last.had THEN 0 ELSE 1

\* a reconciliation ran while the resume notice another one sent for a
\* source was still awaited, and the source keeps one job
C38_Witness ==
    /\ last.op = "actualize" /\ ~last.raised
    /\ \E s \in Scheduled : \E u \in Subscribers(s) :
        /\ Resumes(StillAwaited, s, u) # {}
        /\ s \in last.had
        /\ Cardinality(JobsOf(s)) = 1

\* SpecPolling: the polling spec of channel 1 and the default one of the
\* configuration are edited between reconciliations.  Both channels are
\* files, nobody is subscribed.
Shapes == {"num", "zero", "time", "bad"}

InitPolling ==
    Start([s \in Channels |-> "FILE"], [s \in Channels |-> {}], DefaultConfig)

EditPolling1 == \E p \in Shapes : SetRow(1, [directory[1] EXCEPT !.polling = p])

ReloadPolling == \E p \in Shapes : Reload([cf EXCEPT !.POLLING = p])

NextPolling ==
    \/ OnStart
    \/ ScheduledActualize
    \/ ScheduledListen
    \/ EditPolling1
    \/ ReloadPolling

SpecPolling == InitPolling /\ [][NextPolling]_vars

\* the task the rule of the claim gives a polling spec of shape p
TaskFor(p) ==
    IF p = "time" THEN {"daily"} ELSE IF p \in {"num", "zero"} THEN {"repeating"} ELSE {}

\* C29: after a reconciliation that ran through, every source of the
\* active list has a daily task when its polling spec parses as a
\* wall-clock time and a repeating task when it parses as a number; when
\* it parses as neither, the task is the one the same rule gives the
\* default polling spec.
C29_TaskByPollingSpec ==
    (last.op = "actualize" /\ ~last.raised)
    => \A s \in ActiveChannels :
        {j.trig : j \in JobsOf(s)} =
            IF directory[s].polling = "bad" THEN TaskFor(cf.POLLING)
            ELSE TaskFor(directory[s].polling)

\* SpecFanout: channel 1 watches a table with any of the users subscribed;
\* rows are inserted between the polls, so a poll returns several messages.
InitFanout ==
    \E R \in SUBSET Users :
        Start([s \in Channels |-> IF s = 1 THEN "SQL" ELSE "FILE"],
              [s \in Channels |-> IF s = 1 THEN R ELSE {}], DefaultConfig)

NextFanout ==
    \/ OnStart
    \/ ScheduledListen
    \/ Settle
    \/ Finish
    \/ RowInserted

SpecFanout == InitFanout /\ [][NextFanout]_vars

\* the subscribers of a source whose SLEEP_TIME does not skip them
Eligible(s) == {u \in Subscribers(s) : ~Suppressed(u)}

\* C31: a poll whose check returned messages spawns exactly one delivery
\* for each pair of a non-suppressed subscriber of the source and a
\* returned message and no other delivery; a poll whose check returned
\* nothing spawns none.
C31_CrossProduct ==
    last.op = "listen" =>
        /\ \A u \in Eligible(last.pre.cid) : \A i \in DOMAIN last.out :
            Cardinality({d \in last.sent : d.to = u /\ d.idx = i}) = 1
        /\ Cardinality(last.sent) = Cardinality(Eligible(last.pre.cid)) * Len(last.out)
        /\ \A d \in last.sent : d.src = last.pre.cid

\* a poll returned two messages for a source with two subscribers
C31_Witness ==
    /\ last.op = "listen"
    /\ Len(last.out) >= 2
    /\ Cardinality(Eligible(last.pre.cid)) = 2
    /\ Cardinality(last.sent) >= 4

\* C35: a poll whose check returned messages while the source has no
\* eligible recipient raises nothing, and the connector keeps the cursor
\* the check moved to.
C35_NoRecipientNoError ==
    (last.op = "listen" /\ last.out # <<>> /\ Eligible(last.pre.cid) = {})
        => /\ ~last.raised
           /\ conns[(CHOOSE j \in JobsOf(last.pre.cid) : TRUE).conn] = last.post

\* SpecCheck: the check command beside the scheduled reconciliation (the
\* polls are those of the command).  Channel 1 is a table, channel 2 a file
\* that is written; u1 is subscribed to channel 2.
InitCheck ==
    Start([s \in Channels |-> IF s = 1 THEN "SQL" ELSE "FILE"],
          [s \in Channels |-> IF s = 2 THEN {"u1"} ELSE {}], DefaultConfig)

NextCheck ==
    \/ OnStart
    \/ ScheduledActualize
    \/ CmdCheck
    \/ CmdCheckResume
    \/ Settle
    \/ Finish
    \/ Tick
    \/ Touch2

SpecCheck == InitCheck /\ [][NextCheck]_vars

\* a connector that holds something: it was not closed, or it holds an
\* open connection
Live(c) == ~c.closed \/ c.db = "open"
LiveConnectors(s) == {id \in DOMAIN conns : conns[id].cid = s /\ Live(conns[id])}

\* C4: once the service has started, every active source has exactly one
\* live connector, whatever polls and reconciliations interleave.
C4_OneLiveConnector ==
    \A s \in Channels :
        (~onstart /\ s \in ActiveChannels) => Cardinality(LiveConnectors(s)) = 1

\* C24: once a reconciliation has closed a connector and cancelled its
\* job, no check is started on that connector again, neither by the
\* scheduler nor by a check command that listed the jobs before the
\* reconciliation ran.
C24_NoCheckAfterCancel ==
    /\ last.op = "check" => \A c \in last.polled : ~c.closed
    /\ last.op = "listen" => ~last.pre.closed

\* C39: a table connector that a reconciliation has closed never holds
\* an open connection again.
C39_ClosedStaysReleased ==
    \A id \in DOMAIN conns :
        (conns[id].kind = "SQL" /\ conns[id].closed) => conns[id].db # "open"

\* SpecSched: the self-scheduling of the reconciliation.  The configured
\* interval is reloaded as a number, a wall-clock time or something that is
\* neither (never as 0, the value that switches the self-scheduling off).
InitSched ==
    Start([s \in Channels |-> "FILE"], [s \in Channels |-> {}], DefaultConfig)

ReloadInterval ==
    \E i \in {"num", "time", "bad"} : Reload([cf EXCEPT !.ACTUALIZE_INTERVAL = i])

NextSched ==
    \/ OnStart
    \/ ScheduledActualize
    \/ CmdActualize
    \/ ScheduledListen
    \/ ReloadInterval
    \/ EditRow1

SpecSched == InitSched /\ [][NextSched]_vars

\* C8: after every run of the reconciliation, completed or failed, a future
\* reconciliation is scheduled.
C8_StillScheduled == last.op = "actualize" => actualizeJobs >= 1

\* C9: once the first reconciliation has run, the scheduler holds exactly
\* one pending 'actualize' entry.
C9_ExactlyOnePending == ~onstart => actualizeJobs = 1

\* SpecEmpty: the sources are switched off and on, down to an empty
\* active list, and the actualize interval is reloaded, between scheduled
\* and commanded reconciliations.  u1 is subscribed to both channels.
Switch == \E s \in Channels : \E r \in {Healthy(s), SwitchedOff(s)} : SetRow(s, r)

NextEmpty ==
    \/ OnStart
    \/ ScheduledActualize
    \/ CmdActualize
    \/ Settle
    \/ Finish
    \/ Switch
    \/ ReloadInterval

SpecEmpty == InitJobs /\ [][NextEmpty]_vars

\* C34: a reconciliation that got as far as reading the active list (its
\* interval parses) and found it empty leaves no listener job, raises
\* nothing and leaves a next reconciliation scheduled.
C34_EmptyActiveList ==
    (last.op = "actualize" /\ ActiveChannels = {} /\ cf.ACTUALIZE_INTERVAL # "bad")
        => /\ jobs = {}
           /\ ~last.raised
           /\ actualizeJobs >= 1

\* a reconciliation found the active list empty while both sources had a
\* job, and sent their subscriber the suspend notices
C34_Witness ==
    /\ last.op = "actualize" /\ ActiveChannels = {} /\ cf.ACTUALIZE_INTERVAL # "bad"
    /\ last.had = Channels
    /\ last.sent # {}
    /\ jobs = {}

\* SpecSilent: the silent command.  Channel 1 is a file that is written,
\* u1 is subscribed to it and silences the notifications.
InitSilent ==
    Start([s \in Channels |-> "FILE"],
          [s \in Channels |-> IF s = 1 THEN {"u1"} ELSE {}], DefaultConfig)

SilentCmd == \E until \in 1..MaxTime : Silent("u1", until)

NextSilent ==
    \/ OnStart
    \/ ScheduledListen
    \/ Settle
    \/ Finish
    \/ Tick
    \/ Touch1
    \/ SilentCmd
    \/ SilentOff

SpecSilent == InitSilent /\ [][NextSilent]_vars

\* the window the silent command stored for a user is still running
WindowActive(u) == user_data[u].SILENT_MODE.set /\ user_data[u].SILENT_MODE.until > now

\* C10: a poll sends no change notification to a recipient whose window,
\* set by the silent command, is still running.
C10_SilencedNotNotified ==
    last.op = "listen" => \A d \in last.sent : ~WindowActive(d.to)

\* C27: neither a poll nor a reconciliation sends anything, change
\* notification or resume/suspend notice, to a recipient whose suppression
\* window is still running.
C27_SuppressedGetsNothing ==
    last.op \in {"listen", "actualize"} => \A d \in last.sent : ~WindowActive(d.to)

\* C37: a window that is still running is changed only by another silent
\* command of the recipient: the expiry job of an earlier window does not
\* clear it.
C37_LaterWindowKept ==
    [][\A u \in Users :
        (WindowActive(u) /\ user_data'[u].SILENT_MODE # user_data[u].SILENT_MODE)
            => last'.op = "silent"]_vars

\* C14: a coroutine that dispatched notifications (a poll its change
\* messages, a reconciliation its notices) ends only when every delivery
\* it spawned has settled.
C14_EndsAfterDeliveries ==
    [][\A t \in tasks : t \notin tasks' => \A d \in deliveries : d.owner # t]_vars

\* a poll and the reconciliation are both waiting for deliveries
C14_Witness ==
    \E t, r \in tasks :
        /\ t.op = "listen" /\ \E d \in deliveries : d.owner = t
        /\ r.op = "actualize" /\ \E d \in deliveries : d.owner = r

\* SpecTracker: the reconciliation of tracker.py.  The row of channel 1 is
\* switched off and on and made unparsable; u1 is subscribed to both
\* channels.
InitTracker ==
    Start([s \in Channels |-> "FILE"], [s \in Channels |-> {"u1"}], DefaultConfig)

NextTracker ==
    \/ TrackerOnStart
    \/ TrackerScheduled
    \/ TrackerCmd
    \/ TrackerSent
    \/ TrackerSendFails
    \/ EditRow1

SpecTracker == InitTracker /\ [][NextTracker]_vars

\* C6: after a reconciliation, a source whose configuration cannot be
\* parsed has no listener job, while every active source whose row is
\* sound has one (in the same cycle, and in the first cycle in which its
\* configuration parses again).
C6_UnparsableSkipped ==
    \A s \in ActiveChannels :
        last.op = "actualize"
        => IF directory[s].config = "unparsable"
           THEN JobsOf(s) = {}
           ELSE directory[s] = Healthy(s) => JobsOf(s) # {}

\* SpecSend: the dispatcher.  The chunk size and the lifetime budget are
\* drawn at the start, the messages and their recipients at each dispatch;
\* the transport fails whenever it likes.
SendConfig(n, l) ==
    [ACTUALIZE_INTERVAL |-> "num", SILENT_ACTUALIZE |-> FALSE, POLLING |-> "num",
     TEXT_MAX_LENGTH |-> n, NOTIFICATION_LIFETIME |-> l, RETRY_INTERVAL |-> 1]

InitSend ==
    \E n \in 1..MaxChunk : \E l \in 0..MaxLifetime :
        Start([s \in Channels |-> "FILE"], [s \in Channels |-> {}], SendConfig(n, l))

NextSend ==
    \/ Dispatch
    \/ SendStep
    \/ Finish

SpecSend == InitSend /\ [][NextSend]_vars

\* the concatenation of the parts of a log
RECURSIVE Joined(_)
Joined(log) == IF log = <<>> THEN <<>> ELSE Head(log).part \o Joined(Tail(log))

\* C11: the parts a delivery task has produced for a message S with chunk
\* size N, concatenated in order, are S; every part but the last has
\* length N and the last has length at most N.
C11_ChunksRoundTrip ==
    last.op = "settled" =>
        \A d \in last.sent :
            /\ Joined(d.log) = d.what
            /\ \A i \in DOMAIN d.log :
                /\ Len(d.log[i].part) <= cf.TEXT_MAX_LENGTH
                /\ i < Len(d.log) => Len(d.log[i].part) = cf.TEXT_MAX_LENGTH

\* a message of several parts, the last one shorter than the chunk size
C11_Witness ==
    /\ last.op = "settled"
    /\ \E d \in last.sent :
        /\ Len(d.log) >= 2
        /\ Len(d.log[Len(d.log)].part) < cf.TEXT_MAX_LENGTH
        /\ \A i \in DOMAIN d.log : d.log[i].how = "sent"

\* C12: when a part of a message expires, every later part of the message
\* still gets at least one delivery attempt.
C12_LaterPartsAttempted ==
    last.op = "settled" =>
        \A d \in last.sent :
            \A i, j \in DOMAIN d.log :
                (i < j /\ d.log[i].how = "expired") => d.log[j].attempts >= 1

\* the offsets of the parts of a message
Offsets(message) ==
    {b \in 0..Len(message) : b < Len(message) /\ b % cf.TEXT_MAX_LENGTH = 0}

\* SpecSendPair: every dispatch is to both recipients, and a part is
\* abandoned after its first failed attempt (NOTIFICATION_LIFETIME 0)
InitSendPair ==
    \E n \in 1..MaxChunk :
        Start([s \in Channels |-> "FILE"], [s \in Channels |-> {}], SendConfig(n, 0))

NextSendPair ==
    \/ DispatchPair
    \/ SendStep
    \/ Finish

SpecSendPair == InitSendPair /\ [][NextSendPair]_vars

\* C25 as stated: the deliveries of all parts and all recipients run
\* concurrently, so no part is waiting for another part to settle: every
\* part of a pending delivery has been attempted or is being attempted.
C25_AllConcurrent ==
    \A d \in deliveries : \A b \in Offsets(d.what) : b <= d.bound

\* C25 amended: the deliveries to the recipients run concurrently, no
\* pending delivery task waits for another task; within a task the parts
\* are attempted in order, those before the current offset having been
\* sent or abandoned and none beyond it attempted.
C25_RecipientsConcurrent ==
    \A d \in deliveries :
        /\ ENABLED SendStepOf(d)
        /\ Len(d.log) * cf.TEXT_MAX_LENGTH = d.bound
        /\ \A i \in DOMAIN d.log :
            d.log[i].part = Part(d.what, (i - 1) * cf.TEXT_MAX_LENGTH, cf.TEXT_MAX_LENGTH)

\* two recipients of one dispatch are both part of the way through
C25_Witness ==
    \E d, e \in deliveries :
        /\ d.owner = e.owner /\ d.to # e.to
        /\ d.bound > 0 /\ e.bound > 0

\* the parts the transport accepted, in the order it accepted them
IsSent(entry) == entry.how = "sent"
Accepted(d) == SelectSeq(d.log, IsSent)

\* the deliveries under way and those of the step that just settled
Delivering == deliveries \cup (IF last.op = "settled" THEN last.sent ELSE {})

\* C26: for each recipient and message the offsets of the accepted parts
\* ascend in acceptance order, and once the delivery has settled with no
\* part abandoned the accepted parts joined in that order are the message.
C26_AcceptedInOrder ==
    \A d \in Delivering :
        /\ \A i, j \in DOMAIN Accepted(d) :
            i < j => Accepted(d)[i].at < Accepted(d)[j].at
        /\ (d.bound >= Len(d.what) /\ Accepted(d) = d.log) => Joined(Accepted(d)) = d.what

\* a delivery of several parts has settled with every part accepted, one
\* of them after a failed attempt
C26_Witness ==
    /\ last.op = "settled"
    /\ \E d \in last.sent :
        /\ Len(Accepted(d)) >= 2
        /\ Accepted(d) = d.log
        /\ \E i \in DOMAIN d.log : d.log[i].attempts >= 2

\* SpecSendFair: one delivery task at a time (the tasks share nothing), and
\* the event loop resumes a task whose send_message or sleep has completed
NextSendOne ==
    \/ DispatchOne
    \/ SendStep
    \/ Finish

SpecSendFair == InitSend /\ [][NextSendOne]_vars /\ WF_vars(SendStep)

\* C13: every delivery settles, delivered or abandoned, even when every
\* attempt fails.
C13_DeliveriesSettle == (deliveries # {}) ~> (deliveries = {})

\* a delivery has settled with a part abandoned after failed attempts
C13_Witness ==
    /\ last.op = "settled"
    /\ \E d \in last.sent : \E i \in DOMAIN d.log :
        d.log[i].how = "expired" /\ d.log[i].attempts >= 1

\* SpecTree: channel 1 watches a folder.  Files come and go, the folder
\* is removed and made again, the trigger is edited; the reconciliations
\* rebuild the connector and the scheduler polls it.
InitTree ==
    Start([s \in Channels |-> IF s = 1 THEN "FOLDER" ELSE "FILE"],
          [s \in Channels |-> {}], DefaultConfig)

NextTree ==
    \/ OnStart
    \/ ScheduledActualize
    \/ ScheduledListen
    \/ TreeChange
    \/ EditTrigger1

SpecTree == InitTree /\ [][NextTree]_vars

\* C15: the first check of a tree connector that was built with no
\* snapshot handed over returns nothing, whatever happened to the tree
\* since the connector was constructed.
C15_FirstCheckEmpty ==
    (last.op = "listen" /\ last.pre.kind = "FOLDER" /\ last.pre.fresh)
        => last.out = <<>>

\* the files of the tree as a check finds them: none when the root is gone
CurrentTree(s) == IF world[s].exists THEN world[s].files ELSE {}

\* the lines the previous snapshot, the current tree and the trigger call for
ExpectedLines(prev, cur, trigger) ==
    (IF trigger \in {"DEL", "ANY"} /\ prev \ cur # {} THEN <<"Removed files">> ELSE <<>>)
    \o
    (IF trigger \in {"ADD", "ANY"} /\ cur \ prev # {} THEN <<"Added files">> ELSE <<>>)

\* C16: a check of a tree connector returns the removal line exactly when
\* the trigger includes DEL and files of the previous snapshot are gone,
\* and the addition line exactly when the trigger includes ADD and files
\* are new, the removal line first; a tree whose root is gone has no files.
C16_LinesMatchDifference ==
    (last.op = "listen" /\ last.pre.kind = "FOLDER")
        => last.out = ExpectedLines(last.pre.files.s, CurrentTree(last.pre.cid),
                                    last.pre.trigger)

\* C32: a check of a tree connector leaves the tree as it walked it in
\* the snapshot, whether it emitted a line or not, so that a check of the
\* tree as it stands returns nothing.
C32_SnapshotAlwaysStored ==
    (last.op = "listen" /\ last.pre.kind = "FOLDER" /\ ~last.checkraised)
        => /\ last.post.files = Tuple(CurrentTree(last.pre.cid))
           /\ Check(last.post, world[last.pre.cid], now).out = <<>>

\* the tree differs from the snapshot, the trigger filtered the change
\* out and the check emitted nothing
C32_Witness ==
    /\ last.op = "listen" /\ last.pre.kind = "FOLDER" /\ ~last.checkraised
    /\ world[last.pre.cid].exists
    /\ last.pre.trigger # "ANY"
    /\ last.pre.files.s # CurrentTree(last.pre.cid)
    /\ last.out = <<>>

\* SpecFile: channel 1 watches a file that is written, removed and made
\* unreadable while time passes; the scheduler polls it.
InitFile ==
    Start([s \in Channels |-> "FILE"], [s \in Channels |-> {}], DefaultConfig)

NextFile ==
    \/ OnStart
    \/ ScheduledListen
    \/ Tick
    \/ FileChange

SpecFile == InitFile /\ [][NextFile]_vars

\* the file of the connector exists and was modified after the cursor
Newer(c) == world[c.cid].exists /\ world[c.cid].mtime > c.last_modified.v

\* C19: a check of a file connector returns one element and moves the
\* cursor to the file's modification time exactly when the file exists
\* and that time is strictly newer than the cursor; otherwise it returns
\* nothing and leaves the cursor alone.
C19_FileCheck ==
    (last.op = "listen" /\ last.pre.kind = "FILE")
        => IF Newer(last.pre)
           THEN /\ Len(last.out) = 1
                /\ last.post.last_modified = Dt(world[last.pre.cid].mtime)
           ELSE /\ last.out = <<>>
                /\ last.post.last_modified = last.pre.last_modified

\* the file of a connector is newer than its cursor and cannot be read
NewerUnreadable(c) == Newer(c) /\ ~world[c.cid].readable

\* C30: a check of a file connector whose file exists, is newer than the
\* cursor and cannot be read does not raise: it returns one element, the
\* error message, and moves the cursor to the file's modification time,
\* so that a check of the file as it is returns nothing.
C30_ReadFailureReportedOnce ==
    (last.op = "listen" /\ last.pre.kind = "FILE" /\ NewerUnreadable(last.pre))
        => /\ ~last.checkraised
           /\ last.out = <<"readerror">>
           /\ last.post.last_modified = Dt(world[last.pre.cid].mtime)
           /\ Check(last.post, world[last.pre.cid], now).out = <<>>

\* an unreadable file newer than the cursor has just been polled
C30_Witness ==
    /\ last.op = "listen" /\ last.pre.kind = "FILE"
    /\ NewerUnreadable(last.pre)
    /\ last.out = <<"readerror">>

\* a check right after one that reported the file: the modification time
\* is the cursor, nothing is returned
C19_Witness ==
    /\ last.op = "listen"
    /\ last.pre.kind = "FILE"
    /\ world[last.pre.cid].exists
    /\ last.pre.last_modified = Dt(world[last.pre.cid].mtime)
    /\ last.pre.last_modified.v > 0
    /\ last.out = <<>>

\* SpecTable: channel 1 watches a table, ordered by a datetime column or
\* by a column of another type.  Rows are inserted, the server and the
\* table come and go (also in the middle of a check), and the scheduler
\* polls the connector the first reconciliation built.
InitTable ==
    \E k \in {"SQL", "SQLX"} :
        Start([s \in Channels |-> IF s = 1 THEN k ELSE "FILE"],
              [s \in Channels |-> {}], DefaultConfig)

NextTable ==
    \/ OnStart
    \/ TablePoll
    \/ RowInserted
    \/ ServerChange

SpecTable == InitTable /\ [][NextTable]_vars

\* the check returned rows
ReturnedRows(out) == out # <<>> /\ \A i \in DOMAIN out : "order" \in DOMAIN out[i]

\* C17: the rows a poll of a table returns have ordering values strictly
\* greater than the cursor at the start of the call, in ascending order,
\* and the cursor after the call is the greatest of them; with no row
\* returned the cursor is unchanged.
C17_RowsAfterCursor ==
    last.op = "tablepoll" =>
        IF ReturnedRows(last.out)
        THEN /\ \A i \in DOMAIN last.out : last.out[i].order > last.pre.last_modified.v
             /\ \A i, k \in DOMAIN last.out : i < k => last.out[i].order <= last.out[k].order
             /\ last.post.last_modified.v = Max({last.out[i].order : i \in DOMAIN last.out})
        ELSE last.post.last_modified = last.pre.last_modified

\* a poll returned several rows while older rows were in the table
C17_Witness ==
    /\ last.op = "tablepoll"
    /\ ReturnedRows(last.out)
    /\ Len(last.out) >= 2
    /\ \E v \in world[last.pre.cid].rows : v <= last.pre.last_modified.v

\* C18: the cursor of a table source never decreases, over polls, failed
\* polls and rebuilds.
C18_CursorNeverDecreases ==
    \A s \in Channels :
        (kind[s] = "SQL" /\ observed[s].known /\ JobsOf(s) # {})
        => ConnOf(s).last_modified.v >= observed[s].cursor.modified.v

\* what the calls of the last table check met
FirstQueryFailed == ~ExecuteOK(Seen(last.pre, last.ws[1]), last.ws[1])
ReconnectFailed == ~ConnectOK(last.pre, last.ws[2])
RetriedQueryFailed == ~(last.ws[3].up /\ last.ws[3].tableok)

\* C20: a table check does not raise; when its query fails and the
\* reconnect fails the reconnect failure is the sole result; when the
\* reconnect succeeds and the retried query fails that query failure is
\* the sole result; the cursor is unchanged in both cases.
C20_FailuresReported ==
    (last.op = "tablepoll" /\ last.pre.state = "ok")
    => /\ ~last.checkraised
       /\ (FirstQueryFailed /\ ReconnectFailed)
            => /\ last.out = <<ErrorOut("connect")>>
               /\ last.post.last_modified = last.pre.last_modified
       /\ (FirstQueryFailed /\ ~ReconnectFailed /\ RetriedQueryFailed)
            => /\ last.out = <<ErrorOut("query")>>
               /\ last.post.last_modified = last.pre.last_modified

\* the server was reachable, with the table there, at every call of the
\* last table check
Reachable == \A i \in 1..4 : last.ws[i].up /\ last.ws[i].tableok

\* C22: a failed connection is tried again by the next poll: a poll of a
\* table connector (one that has its connection parameters) that finds
\* the server reachable and rows beyond its cursor returns rows, whatever
\* the earlier polls met.
C22_RetriedOnNextPoll ==
    (/\ last.op = "tablepoll"
     /\ last.pre.params
     /\ Reachable
     /\ Fetched(last.pre, world[last.pre.cid]) # {})
    => ReturnedRows(last.out)

\* SpecRebuild: channel 1 watches a table, ordered by a datetime column or
\* by a column of another type.  Rows are inserted, the scheduler polls the
\* connector and the reconciliations rebuild it.
NextRebuild ==
    \/ OnStart
    \/ ScheduledActualize
    \/ ScheduledListen
    \/ RowInserted

SpecRebuild == InitTable /\ [][NextRebuild]_vars

\* C36: no row of the watched table has been returned by two checks, over
\* all the connectors built for the source.
C36_RowReportedOnce == \A s \in Channels : observed[s].twice = {}

\* SpecPolls: the scheduled polls beside the check command.  Both channels
\* watch a file, the file of channel 1 is written as time passes; u1 is
\* subscribed to channel 1.
InitPolls ==
    Start([s \in Channels |-> "FILE"],
          [s \in Channels |-> IF s = 1 THEN {"u1"} ELSE {}], DefaultConfig)

NextPolls ==
    \/ OnStart
    \/ ScheduledListen
    \/ CmdCheck
    \/ CmdCheckResume
    \/ Settle
    \/ Finish
    \/ Tick
    \/ Touch1

SpecPolls == InitPolls /\ [][NextPolls]_vars

\* the invocations of __listen for a source that are awaiting their deliveries
InFlight(s) == {t \in tasks : t.op = "listen" /\ conns[t.conn].cid = s}

\* C23: no source ever has two invocations of its poll in flight.
C23_OneInvocation == \A s \in Channels : Cardinality(InFlight(s)) <= 1

====
